---- MODULE Spec2Model ----
(***************************************************************************)
(* Model of multi_agent_toolbox.py: the plan executor (execute_plan and    *)
(* the seven primitives), the signature function, the plan cache           *)
(* (virtual_tools / success_count) and the request handler ask_system.     *)
(*                                                                         *)
(* Six specifications:                                                     *)
(*   Spec          the request handler, called sequentially                *)
(*   SpecSig       the handler on every request text up to MaxTextLen,     *)
(*                 the oracle answering at once                            *)
(*   SpecExec      execute_plan alone, run on every plan of a bounded      *)
(*                 family                                                  *)
(*   SpecPreloaded the handler started on a cache that already holds plans *)
(*   SpecDisc      conversation_with_planner alone, with its transcript    *)
(*   SpecConc      the handler called from two threads                     *)
(*                                                                         *)
(* Texts are sequences of one-character strings.  Numbers are exact        *)
(* rationals <<n, d>> in lowest terms (d > 0): every argument of a plan is *)
(* an integer literal and no step reads another step's result, so the only *)
(* non-integers are the quotients a/b.  Floating-point rounding is not     *)
(* modelled.                                                               *)
(***************************************************************************)
EXTENDS Integers, Sequences, FiniteSets, TLC

VARIABLES
    virtual_tools,   \* dict: signature -> [plan_text |-> ...]
    success_count,   \* dict: signature -> number of fresh successes
    pc,              \* position of the current ask_system call
    wordy_question,  \* ask_system: its argument
    sig,             \* ask_system: the local sig
    turns,           \* conversation_with_planner: oracle calls made in this call
    result,          \* what the last ask_system call returned (or raised)
    log,             \* history: one entry per finished ask_system call
    plan_text,       \* execute_plan: its argument
    ex_pc,           \* execute_plan: position
    idx,             \* execute_plan: loop index i (0-based, as in the code)
    results,         \* execute_plan: the list results
    corrected,       \* history: some candidate failed verification and was replaced
    ex_out,          \* execute_plan: what it returned or raised
    messages,        \* conversation_with_planner: the list messages
    d_pc,            \* conversation_with_planner: position
    d_ret,           \* conversation_with_planner: the text it returned
    reply,           \* history: the last oracle reply, as received
    d_calls,         \* history: oracle calls made by conversation_with_planner
    th,              \* SpecConc: the locals of each thread's ask_system call
    overlapped,      \* history: some call started while another was running
    overwritten      \* history: a cache entry was replaced by another text

vars == <<virtual_tools, success_count, pc, wordy_question, sig, turns, result,
          log, plan_text, ex_pc, idx, results, corrected, ex_out,
          messages, d_pc, d_ret, reply, d_calls, th, overlapped, overwritten>>

conc_vars == <<th, overlapped, overwritten>>

disc_vars == <<messages, d_pc, d_ret, reply, d_calls>>

handler_vars == <<virtual_tools, success_count, pc, wordy_question, sig, turns,
                  result, log>>

exec_vars == <<plan_text, ex_pc, idx, results, corrected, ex_out>>

-----------------------------------------------------------------------------
(* Bounds of the model *)

MaxTextLen == 2      \* SpecSig: request texts have at most this many characters
MaxSigCalls == 3     \* SpecSig: ask_system calls per behaviour
MaxCalls == 4        \* Spec: ask_system calls per behaviour
MaxTurns == 1        \* non-terminal oracle replies per discovery
MaxSteps == 2        \* SpecExec: steps per plan
MaxDiscTurns == 2    \* SpecDisc: oracle calls per conversation
MaxConcCalls == 3    \* SpecConc: ask_system calls per behaviour

-----------------------------------------------------------------------------
(* Python dict and list helpers *)

dict_get(d, k, default) == IF k \in DOMAIN d THEN d[k] ELSE default

dict_set(d, k, v) == (k :> v) @@ d

-----------------------------------------------------------------------------
(* Request texts and the signature function *)

Chars == {"a", "A", " "}

Whitespace == {" "}

Texts == UNION {[1..n -> Chars] : n \in 0..MaxTextLen}

\* str.lower on one character
lower_char(c) == IF c = "A" THEN "a" ELSE c

\* str.lower
str_lower(s) == [i \in DOMAIN s |-> lower_char(s[i])]

RECURSIVE str_lstrip(_)
str_lstrip(s) ==
    IF s # <<>> /\ Head(s) \in Whitespace THEN str_lstrip(Tail(s)) ELSE s

RECURSIVE str_rstrip(_)
str_rstrip(s) ==
    IF s # <<>> /\ s[Len(s)] \in Whitespace
    THEN str_rstrip(SubSeq(s, 1, Len(s) - 1))
    ELSE s

\* str.strip
str_strip(s) == str_rstrip(str_lstrip(s))

\* A plausible slip: strip only the leading whitespace, keep the case.
get_question_signature_lstrip(question) == str_lstrip(question)

get_question_signature(question) == str_lower(str_strip(question))

-----------------------------------------------------------------------------
(* Numbers: Python floats as exact rationals <<n, d>>, d > 0, lowest terms *)

Abs(x) == IF x < 0 THEN -x ELSE x

RECURSIVE Gcd(_, _)
Gcd(a, b) == IF b = 0 THEN a ELSE Gcd(b, a % b)

Rat(n, d) ==
    LET s == IF d < 0 THEN -1 ELSE 1
        g == Gcd(Abs(n), Abs(d))
    IN  <<(s * n) \div g, (s * d) \div g>>

\* float(x) of a JSON integer literal
float(x) == Rat(x, 1)

num_add(x, y) == Rat(x[1] * y[2] + y[1] * x[2], x[2] * y[2])

num_sub(x, y) == Rat(x[1] * y[2] - y[1] * x[2], x[2] * y[2])

num_mul(x, y) == Rat(x[1] * y[1], x[2] * y[2])

\* y # 0
num_div(x, y) == Rat(x[1] * y[2], x[2] * y[1])

\* floor of a rational (\div rounds down, the denominator is positive)
num_floor(x) == x[1] \div x[2]

\* x % y of Python floats: the result has the sign of y.  y # 0
num_mod(x, y) == num_sub(x, num_mul(y, float(num_floor(num_div(x, y)))))

\* x ** k for an integer k >= 0
RECURSIVE num_pow(_, _)
num_pow(x, k) == IF k = 0 THEN float(1) ELSE num_mul(x, num_pow(x, k - 1))

Zero == float(0)

-----------------------------------------------------------------------------
(* What a call does: it returns a value or raises an exception *)

Pending == [status |-> "pending", value |-> Zero, error |-> ""]

Return(v) == [status |-> "returned", value |-> v, error |-> ""]

Raise(e) == [status |-> "raised", value |-> Zero, error |-> e]

JSONDecodeError == "JSONDecodeError"

MalformedPlan == "ValueError: invalid final_step_index"

ArityMismatch == "ValueError: needs 2 args"

UnknownTool == "ValueError: Unknown tool"

DivisionByZero == "ZeroDivisionError"

IndexError == "IndexError: list index out of range"

OracleUnavailable == "OracleUnavailable"

-----------------------------------------------------------------------------
(* The primitives *)

\* random.randint(-100, 100)
DecoyLo == -100

DecoyHi == 100

Decoys == DecoyLo..DecoyHi

\* One use of the random source by an unreliable primitive: whether
\* random.random() < fail_rate, and what randint returns if it is drawn.
Draws == {[fail |-> FALSE, decoy |-> 0]} \cup [fail : {TRUE}, decoy : Decoys]

unreliable_sum(a, b, draw) ==
    IF draw.fail THEN float(draw.decoy) ELSE num_add(a, b)

unreliable_product(a, b, draw) ==
    IF draw.fail THEN float(draw.decoy) ELSE num_mul(a, b)

delta(a, b) == Return(num_sub(b, a))

\* A plausible slip: a zero denominator yields 0 instead of an error.
quotient_swallow(a, b) ==
    IF b = Zero THEN Return(Zero) ELSE Return(num_div(a, b))

quotient(a, b) ==
    IF b = Zero THEN Raise(DivisionByZero) ELSE Return(num_div(a, b))

modulo(a, b) ==
    IF b = Zero THEN Raise(DivisionByZero) ELSE Return(num_mod(a, b))

\* a ** b of floats, for an integral b; 0.0 to a negative power raises
power(a, b) ==
    IF b[1] >= 0 THEN Return(num_pow(a, b[1]))
    ELSE IF a = Zero THEN Raise(DivisionByZero)
    ELSE Return(num_div(float(1), num_pow(a, -b[1])))

absolute(a) == Return(Rat(Abs(a[1]), a[2]))

\* str.upper on the tool names the plans use
str_upper(t) ==
    CASE t = "sum" -> "SUM"
      [] t = "Abs" -> "ABS"
      [] OTHER -> t

\* A plausible slip: the candidate is trusted.
verify_unreliable_trusting(tool_name, a, b, candidate) == TRUE

verify_unreliable(tool_name, a, b, candidate) ==
    LET t == str_upper(tool_name)
    IN  IF t = "SUM" THEN candidate = num_add(a, b)
        ELSE IF t = "PRODUCT" THEN candidate = num_mul(a, b)
        ELSE TRUE

-----------------------------------------------------------------------------
(* Plan texts.  A text either is a JSON document, given by the object it   *)
(* denotes (a dict whose keys may be missing), or is not JSON at all.      *)

NotJson == [is_json |-> FALSE, obj |-> <<>>]

\* The text of a JSON object
json_dumps(obj) == [is_json |-> TRUE, obj |-> obj]

json_loads(text) ==
    IF text.is_json THEN Return(text.obj) ELSE Raise(JSONDecodeError)

\* results[final_idx] on a Python list: a negative index counts from the end
list_index(list, k) ==
    IF 0 <= k /\ k < Len(list) THEN Return(list[k + 1])
    ELSE IF k < 0 /\ -Len(list) <= k THEN Return(list[Len(list) + k + 1])
    ELSE Raise(IndexError)

-----------------------------------------------------------------------------
(* execute_plan *)

\* Whether the step's candidate fails verification and is replaced by the
\* recomputed value.
step_corrects(stp, draw) ==
    LET tool == str_upper(dict_get(stp, "tool", ""))
        args == dict_get(stp, "args", <<>>)
        a == float(args[1])
        b == float(args[2])
    IN  /\ tool \in {"SUM", "PRODUCT"}
        /\ Len(args) >= 2
        /\ IF tool = "SUM"
           THEN ~verify_unreliable("SUM", a, b, unreliable_sum(a, b, draw))
           ELSE ~verify_unreliable("PRODUCT", a, b, unreliable_product(a, b, draw))

\* The body of the loop over the steps: the value appended to results, or
\* the exception raised.
step_body(stp, draw) ==
    LET tool == str_upper(dict_get(stp, "tool", ""))
        args == dict_get(stp, "args", <<>>)
        a == float(args[1])
        b == float(args[2])
    IN  IF tool = "SUM" THEN
            IF Len(args) < 2 THEN Raise(ArityMismatch)
            ELSE LET out == unreliable_sum(a, b, draw)
                 IN  IF ~verify_unreliable("SUM", a, b, out)
                     THEN Return(num_add(a, b))
                     ELSE Return(out)
        ELSE IF tool = "PRODUCT" THEN
            IF Len(args) < 2 THEN Raise(ArityMismatch)
            ELSE LET out == unreliable_product(a, b, draw)
                 IN  IF ~verify_unreliable("PRODUCT", a, b, out)
                     THEN Return(num_mul(a, b))
                     ELSE Return(out)
        ELSE IF tool = "DELTA" THEN
            IF Len(args) < 2 THEN Raise(IndexError) ELSE delta(a, b)
        ELSE IF tool = "QUOTIENT" THEN
            IF Len(args) < 2 THEN Raise(IndexError) ELSE quotient(a, b)
        ELSE IF tool = "MODULO" THEN
            IF Len(args) < 2 THEN Raise(IndexError) ELSE modulo(a, b)
        ELSE IF tool = "POWER" THEN
            IF Len(args) < 2 THEN Raise(IndexError) ELSE power(a, b)
        ELSE IF tool = "ABS" THEN
            IF Len(args) < 1 THEN Raise(IndexError) ELSE absolute(a)
        ELSE Raise(UnknownTool)

plan_steps(text) == dict_get(json_loads(text).value, "steps", <<>>)

plan_final_idx(text) ==
    dict_get(json_loads(text).value, "final_step_index", Len(plan_steps(text)) - 1)

\* The check on final_idx made before the loop
final_idx_rejected(final_idx, steps) == final_idx >= Len(steps)

\* The loop from step i (1-based) on, rnd[i] being the random source at step i
RECURSIVE run_steps(_, _, _, _)
run_steps(steps, i, rnd, acc) ==
    IF i > Len(steps) THEN Return(acc)
    ELSE LET o == step_body(steps[i], rnd[i])
         IN  IF o.status = "raised" THEN o
             ELSE run_steps(steps, i + 1, rnd, Append(acc, o.value))

\* execute_plan as a function of the text and of the random source
execute_plan(text, rnd) ==
    IF json_loads(text).status = "raised" THEN json_loads(text)
    ELSE IF final_idx_rejected(plan_final_idx(text), plan_steps(text))
         THEN Raise(MalformedPlan)
    ELSE LET r == run_steps(plan_steps(text), 1, rnd, <<>>)
         IN  IF r.status = "raised" THEN r
             ELSE list_index(r.value, plan_final_idx(text))

\* What the loop body can do with a step, over every use of the random
\* source: the pairs <<outcome, whether a candidate was replaced>>.
step_outcomes(stp) ==
    {<<step_body(stp, draw), step_corrects(stp, draw)>> : draw \in Draws}

-----------------------------------------------------------------------------
(* The plans SpecExec runs *)

Catalog == {"SUM", "PRODUCT", "DELTA", "QUOTIENT", "MODULO", "POWER", "ABS"}

ArgLists == {<<3>>, <<3, 0>>, <<-2, 3>>, <<3, -2, 5>>}

StepInputs ==
    [tool : Catalog, args : ArgLists]
    \cup {[tool |-> "FOO", args |-> <<3, -2>>],
          [tool |-> "sum", args |-> <<-2, 3>>],
          [tool |-> "SUM"],
          [args |-> <<3>>]}

\* step_outcomes, tabulated once for the steps the plans use
StepOutcomes == [stp \in StepInputs |-> step_outcomes(stp)] @@ <<>>

-----------------------------------------------------------------------------
(* execute_plan step by step *)

ExecStart ==
    /\ ex_pc = "start"
    /\ IF json_loads(plan_text).status = "raised"
       THEN /\ ex_out' = json_loads(plan_text)
            /\ ex_pc' = "done"
       ELSE IF final_idx_rejected(plan_final_idx(plan_text), plan_steps(plan_text))
       THEN /\ ex_out' = Raise(MalformedPlan)
            /\ ex_pc' = "done"
       ELSE /\ ex_pc' = "loop"
            /\ UNCHANGED ex_out
    /\ idx' = 0
    /\ results' = <<>>
    /\ UNCHANGED <<plan_text, corrected>>
    /\ UNCHANGED <<handler_vars, disc_vars, conc_vars>>

ExecStep ==
    /\ ex_pc = "loop"
    /\ idx < Len(plan_steps(plan_text))
    /\ \E oc \in StepOutcomes[plan_steps(plan_text)[idx + 1]] :
         /\ IF oc[1].status = "raised"
            THEN /\ ex_out' = oc[1]
                 /\ ex_pc' = "done"
                 /\ UNCHANGED <<results, idx>>
            ELSE /\ results' = Append(results, oc[1].value)
                 /\ idx' = idx + 1
                 /\ UNCHANGED <<ex_out, ex_pc>>
         /\ corrected' = (corrected \/ oc[2])
    /\ UNCHANGED plan_text
    /\ UNCHANGED <<handler_vars, disc_vars, conc_vars>>

ExecReturn ==
    /\ ex_pc = "loop"
    /\ idx = Len(plan_steps(plan_text))
    /\ ex_out' = list_index(results, plan_final_idx(plan_text))
    /\ ex_pc' = "done"
    /\ UNCHANGED <<plan_text, idx, results, corrected>>
    /\ UNCHANGED <<handler_vars, disc_vars, conc_vars>>

-----------------------------------------------------------------------------
(* The oracle: the plan texts its terminal replies carry *)

\* Example 1 of the specification: answer 28
PlanA ==
    json_dumps([steps |-> <<[tool |-> "DELTA", args |-> <<10, 3>>],
                            [tool |-> "PRODUCT", args |-> <<7, 4>>]>>,
                final_step_index |-> 1])

\* answer 8
PlanB ==
    json_dumps([steps |-> <<[tool |-> "SUM", args |-> <<3, 5>>]>>,
                final_step_index |-> 0])

\* Example 2 of the specification: division by zero
PlanDivZero ==
    json_dumps([steps |-> <<[tool |-> "QUOTIENT", args |-> <<5, 0>>]>>,
                final_step_index |-> 0])

\* A terminal reply holds both markers; it need not be JSON (NotJson).
OraclePlans == {PlanA, PlanB, PlanDivZero, NotJson}

plan_len(text) == IF text.is_json THEN Len(plan_steps(text)) ELSE 0

\* What execute_plan can do with a text, over every behaviour of the random source
exec_outcomes(text) == {execute_plan(text, rnd) : rnd \in [1..plan_len(text) -> Draws]}

ExecOutcomes == [text \in OraclePlans |-> exec_outcomes(text)] @@ <<>>

-----------------------------------------------------------------------------
(* The plan cache and ask_system *)

\* No plan text: the oracle failed before there was one
NoPlanText == [is_json |-> FALSE, obj |-> <<"no plan">>]

\* A plausible slip: rebind the dict instead of assigning one item.
store_virtual_tool_rebind(vt, signature, text) ==
    (signature :> [plan_text |-> text])

store_virtual_tool(vt, signature, text) ==
    dict_set(vt, signature, [plan_text |-> text])

\* A plausible slip: look the raw question up, not its signature.
cache_hit_raw(vt, question, s) == question \in DOMAIN vt

\* sig in virtual_tools
cache_hit(vt, question, s) == s \in DOMAIN vt

\* A plausible slip: promote at the first success.
promotes_first(new_count) == new_count = 1

\* A plausible slip: an off-by-one threshold.
promotes_third(new_count) == new_count = 3

\* new_count == 2
promotes(new_count) == new_count = 2

\* A plausible slip: a failed execution starts the count again.
count_reset_on_failure(sc, s) == IF s \in DOMAIN sc THEN dict_set(sc, s, 0) ELSE sc

\* A plausible slip: a failed execution is counted as a use.
count_failure_as_use(sc, s) == dict_set(sc, s, dict_get(sc, s, 0) + 1)

\* The except branch of the fresh path: success_count is not assigned
count_after_failure(sc, s) == sc

\* A plausible slip: a cached plan that fails is evicted.
evict_on_hit_failure(vt, s) == [k \in DOMAIN vt \ {s} |-> vt[k]]

\* The except branch of the cached path: the entry is left in place
cache_after_hit_failure(vt, s) == vt

\* The dict ask_system returns
outcome_dict(question, text, o, via) ==
    IF o.status = "returned"
    THEN [question |-> question, plan |-> text, answer |-> o.value,
          status |-> "success", via |-> via]
    ELSE [question |-> question, plan |-> text, error |-> o.error,
          status |-> "fail", via |-> via]

\* The history entry of a finished call
log_entry(s, cached, discovered, text, status, via) ==
    [sig |-> s, cached |-> cached, discovered |-> discovered, plan |-> text,
     status |-> status, via |-> via]

\* ask_system when the signature is cached: run the cached plan, return
AskHit(q) ==
    LET s == get_question_signature(q) IN
    /\ pc = "idle"
    /\ cache_hit(virtual_tools, q, s)
    /\ LET text == virtual_tools[s].plan_text IN
       \E o \in ExecOutcomes[text] :
         /\ result' = Return(outcome_dict(q, text, o, "virtual_tool"))
         /\ log' = Append(log, log_entry(s, s \in DOMAIN virtual_tools, FALSE, text,
                                         result'.value.status, "virtual_tool"))
         /\ IF o.status = "raised"
            THEN virtual_tools' = cache_after_hit_failure(virtual_tools, s)
            ELSE UNCHANGED virtual_tools
    /\ wordy_question' = q
    /\ sig' = s
    /\ turns' = 0
    /\ UNCHANGED <<success_count, pc>>
    /\ UNCHANGED <<exec_vars, disc_vars, conc_vars>>

\* ask_system when it is not: enter conversation_with_planner
AskMiss(q) ==
    LET s == get_question_signature(q) IN
    /\ pc = "idle"
    /\ ~cache_hit(virtual_tools, q, s)
    /\ pc' = "planner"
    /\ wordy_question' = q
    /\ sig' = s
    /\ turns' = 0
    /\ result' = Pending
    /\ UNCHANGED <<virtual_tools, success_count, log>>
    /\ UNCHANGED <<exec_vars, disc_vars, conc_vars>>

\* The oracle replies without both markers: a message or two are appended
\* and the loop calls it again
OracleNonTerminal ==
    /\ pc = "planner"
    /\ turns < MaxTurns
    /\ turns' = turns + 1
    /\ UNCHANGED <<virtual_tools, success_count, pc, wordy_question, sig, result, log>>
    /\ UNCHANGED <<exec_vars, disc_vars, conc_vars>>

\* The oracle call raises: nothing catches it, in conversation_with_planner
\* or in ask_system
OracleRaises ==
    /\ pc = "planner"
    /\ result' = Raise(OracleUnavailable)
    /\ log' = Append(log, log_entry(sig, sig \in DOMAIN virtual_tools, TRUE, NoPlanText,
                                    "raised", "none"))
    /\ pc' = "idle"
    /\ UNCHANGED <<virtual_tools, success_count, wordy_question, sig, turns>>
    /\ UNCHANGED <<exec_vars, disc_vars, conc_vars>>

\* The oracle replies with both markers: conversation_with_planner returns
\* the reply, ask_system executes it, counts the success, promotes, returns
OracleTerminal(text) ==
    /\ pc = "planner"
    /\ \E o \in ExecOutcomes[text] :
         /\ IF o.status = "returned"
            THEN LET old_count == dict_get(success_count, sig, 0)
                     new_count == old_count + 1
                 IN  /\ success_count' = dict_set(success_count, sig, new_count)
                     /\ IF promotes(new_count)
                        THEN virtual_tools' = store_virtual_tool(virtual_tools, sig, text)
                        ELSE UNCHANGED virtual_tools
            ELSE /\ success_count' = count_after_failure(success_count, sig)
                 /\ UNCHANGED virtual_tools
         /\ result' = Return(outcome_dict(wordy_question, text, o, "fresh_llm"))
         /\ log' = Append(log, log_entry(sig, sig \in DOMAIN virtual_tools, TRUE, text,
                                         result'.value.status, "fresh_llm"))
    /\ pc' = "idle"
    /\ UNCHANGED <<wordy_question, sig, turns>>
    /\ UNCHANGED <<exec_vars, disc_vars, conc_vars>>

-----------------------------------------------------------------------------
(* Specifications of the handler *)

\* The request texts of Spec: two signatures, one of them reached by two texts
Questions == {<<"a">>, <<" ", "A">>, <<>>}

ExecIdle ==
    /\ plan_text = NotJson
    /\ ex_pc = "idle"
    /\ idx = 0
    /\ results = <<>>
    /\ corrected = FALSE
    /\ ex_out = Pending

-----------------------------------------------------------------------------
(* Handler state while SpecExec runs, executor state while Spec runs *)

\* Two callers of ask_system in one process
Threads == {1, 2}

\* The locals of a thread that is not inside ask_system
ThreadIdle ==
    [pc |-> "idle", question |-> <<>>, sig |-> <<>>, plan_text |-> NoPlanText,
     old_count |-> 0, new_count |-> 0]

ConcIdle ==
    /\ th = [t \in Threads |-> ThreadIdle]
    /\ overlapped = FALSE
    /\ overwritten = FALSE

DiscIdle ==
    /\ messages = <<>>
    /\ d_pc = "idle"
    /\ d_ret = <<>>
    /\ reply = <<>>
    /\ d_calls = 0

HandlerIdle ==
    /\ virtual_tools = <<>>
    /\ success_count = <<>>
    /\ pc = "idle"
    /\ wordy_question = <<>>
    /\ sig = <<>>
    /\ turns = 0
    /\ result = Pending
    /\ log = <<>>

\* Every plan text of the family: not JSON, or a JSON object with up to
\* MaxSteps steps and a final_step_index that is missing or in range or not
InitExec ==
    /\ \/ plan_text = NotJson
       \/ \E n \in 0..MaxSteps : \E s \in [1..n -> StepInputs] :
            \/ plan_text = json_dumps([steps |-> s])
            \/ \E k \in -(MaxSteps + 1)..(MaxSteps + 1) :
                 plan_text = json_dumps([steps |-> s, final_step_index |-> k])
    /\ ex_pc = "start"
    /\ idx = 0
    /\ results = <<>>
    /\ corrected = FALSE
    /\ ex_out = Pending
    /\ HandlerIdle
    /\ DiscIdle
    /\ ConcIdle

Init == HandlerIdle /\ ExecIdle /\ DiscIdle /\ ConcIdle

Next ==
    \/ \E q \in Questions : Len(log) < MaxCalls /\ AskHit(q)
    \/ \E q \in Questions : Len(log) < MaxCalls /\ AskMiss(q)
    \/ OracleNonTerminal
    \/ OracleRaises
    \/ \E text \in OraclePlans : OracleTerminal(text)

Spec == Init /\ [][Next]_vars

\* Every request text; the oracle answers each discovery at once with PlanA
NextSig ==
    \/ \E q \in Texts : Len(log) < MaxSigCalls /\ AskHit(q)
    \/ \E q \in Texts : Len(log) < MaxSigCalls /\ AskMiss(q)
    \/ OracleTerminal(PlanA)

SpecSig == Init /\ [][NextSig]_vars

\* The two signatures of Questions
QuestionSigs == {get_question_signature(q) : q \in Questions}

\* ask_system reads the module-level dicts as it finds them.  Here a call
\* starts from a cache that holds, for some signatures, any text a terminal
\* reply can carry, with the counter of a cached signature at 2.
InitPreloaded ==
    /\ \E D \in SUBSET QuestionSigs :
         /\ virtual_tools \in [D -> {[plan_text |-> text] : text \in OraclePlans}]
         /\ success_count = [s \in D |-> 2]
    /\ pc = "idle"
    /\ wordy_question = <<>>
    /\ sig = <<>>
    /\ turns = 0
    /\ result = Pending
    /\ log = <<>>
    /\ ExecIdle
    /\ DiscIdle
    /\ ConcIdle

NextPreloaded ==
    \/ \E q \in Questions : Len(log) < MaxSigCalls /\ AskHit(q)
    \/ \E q \in Questions : Len(log) < MaxSigCalls /\ AskMiss(q)
    \/ \E text \in OraclePlans : OracleTerminal(text)

SpecPreloaded == InitPreloaded /\ [][NextPreloaded]_vars

-----------------------------------------------------------------------------
(* ask_system called from two threads.  virtual_tools and success_count    *)
(* are module-level dicts and nothing locks them: a thread can be          *)
(* suspended between any two statements of ask_system, and is for long     *)
(* while it waits for the oracle.                                          *)

\* The calls started so far
CallsMade == Len(log) + Cardinality({t \in Threads : th[t].pc # "idle"})

OthersRunning(t) == \E u \in Threads \ {t} : th[u].pc # "idle"

\* Thread t calls ask_system(q) and finds the signature cached: it runs the
\* cached plan and returns
T_Hit(t, q) ==
    LET s == get_question_signature(q) IN
    /\ th[t].pc = "idle"
    /\ CallsMade < MaxConcCalls
    /\ cache_hit(virtual_tools, q, s)
    /\ LET text == virtual_tools[s].plan_text IN
       \E o \in ExecOutcomes[text] :
         /\ log' = Append(log, log_entry(s, TRUE, FALSE, text,
                                         outcome_dict(q, text, o, "virtual_tool").status,
                                         "virtual_tool"))
         /\ IF o.status = "raised"
            THEN virtual_tools' = cache_after_hit_failure(virtual_tools, s)
            ELSE UNCHANGED virtual_tools
    /\ overlapped' = (overlapped \/ OthersRunning(t))
    /\ UNCHANGED <<success_count, th, overwritten>>
    /\ UNCHANGED <<pc, wordy_question, sig, turns, result>>
    /\ UNCHANGED <<exec_vars, disc_vars>>

\* Thread t calls ask_system(q), finds no entry and enters
\* conversation_with_planner
T_Miss(t, q) ==
    LET s == get_question_signature(q) IN
    /\ th[t].pc = "idle"
    /\ CallsMade < MaxConcCalls
    /\ ~cache_hit(virtual_tools, q, s)
    /\ th' = [th EXCEPT ![t] = [ThreadIdle EXCEPT !.pc = "planner", !.question = q, !.sig = s]]
    /\ overlapped' = (overlapped \/ OthersRunning(t))
    /\ UNCHANGED <<virtual_tools, success_count, log, overwritten>>
    /\ UNCHANGED <<pc, wordy_question, sig, turns, result>>
    /\ UNCHANGED <<exec_vars, disc_vars>>

\* The oracle returns a terminal reply to thread t, which executes it: on
\* success it goes on to the counter, on failure it returns
T_Planned(t, text) ==
    /\ th[t].pc = "planner"
    /\ \E o \in ExecOutcomes[text] :
         IF o.status = "returned"
         THEN /\ th' = [th EXCEPT ![t].pc = "read", ![t].plan_text = text]
              /\ UNCHANGED <<success_count, log>>
         ELSE /\ success_count' = count_after_failure(success_count, th[t].sig)
              /\ log' = Append(log, log_entry(th[t].sig, FALSE, TRUE, text, "fail", "fresh_llm"))
              /\ th' = [th EXCEPT ![t] = ThreadIdle]
    /\ UNCHANGED <<virtual_tools, overlapped, overwritten>>
    /\ UNCHANGED <<pc, wordy_question, sig, turns, result>>
    /\ UNCHANGED <<exec_vars, disc_vars>>

\* old_count = success_count.get(sig, 0); new_count = old_count + 1
T_Read(t) ==
    /\ th[t].pc = "read"
    /\ LET old_count == dict_get(success_count, th[t].sig, 0)
           new_count == old_count + 1
       IN  th' = [th EXCEPT ![t].pc = "write", ![t].old_count = old_count,
                            ![t].new_count = new_count]
    /\ UNCHANGED <<virtual_tools, success_count, log, overlapped, overwritten>>
    /\ UNCHANGED <<pc, wordy_question, sig, turns, result>>
    /\ UNCHANGED <<exec_vars, disc_vars>>

\* success_count[sig] = new_count
T_Write(t) ==
    /\ th[t].pc = "write"
    /\ success_count' = dict_set(success_count, th[t].sig, th[t].new_count)
    /\ th' = [th EXCEPT ![t].pc = "promote"]
    /\ UNCHANGED <<virtual_tools, log, overlapped, overwritten>>
    /\ UNCHANGED <<pc, wordy_question, sig, turns, result>>
    /\ UNCHANGED <<exec_vars, disc_vars>>

\* if new_count == 2: store_virtual_tool(sig, plan_text); return
T_Promote(t) ==
    /\ th[t].pc = "promote"
    /\ IF promotes(th[t].new_count)
       THEN /\ virtual_tools' = store_virtual_tool(virtual_tools, th[t].sig, th[t].plan_text)
            /\ overwritten' =
                  (\/ overwritten
                   \/ /\ th[t].sig \in DOMAIN virtual_tools
                      /\ virtual_tools[th[t].sig].plan_text # th[t].plan_text)
       ELSE UNCHANGED <<virtual_tools, overwritten>>
    /\ log' = Append(log, log_entry(th[t].sig, FALSE, TRUE, th[t].plan_text,
                                    "success", "fresh_llm"))
    /\ th' = [th EXCEPT ![t] = ThreadIdle]
    /\ UNCHANGED <<success_count, overlapped>>
    /\ UNCHANGED <<pc, wordy_question, sig, turns, result>>
    /\ UNCHANGED <<exec_vars, disc_vars>>

NextConc ==
    \/ \E t \in Threads : \E q \in Questions : T_Hit(t, q)
    \/ \E t \in Threads : \E q \in Questions : T_Miss(t, q)
    \/ \E t \in Threads : \E text \in OraclePlans : T_Planned(t, text)
    \/ \E t \in Threads : T_Read(t)
    \/ \E t \in Threads : T_Write(t)
    \/ \E t \in Threads : T_Promote(t)

SpecConc == Init /\ [][NextConc]_vars

-----------------------------------------------------------------------------
(* conversation_with_planner.  A reply is a sequence of fragments: pieces  *)
(* of text that the substring tests of the loop can tell apart.            *)

StepsMarker == "\"steps\":"

FinalMarker == "\"final_step_index\":"

WhichToolsExist == "which tools exist"

TellMeAbout == "tell me about the tool named"

\* str.lower on one fragment
lower_fragment(f) ==
    CASE f = "Which tools exist" -> WhichToolsExist
      [] f = "Tell me about the tool named" -> TellMeAbout
      [] f = "PRODUCT" -> "product"
      [] f = "\"Steps\":" -> StepsMarker
      [] OTHER -> lower_char(f)

\* content.lower()
text_lower(text) == [i \in DOMAIN text |-> lower_fragment(text[i])]

\* needle in fragment: the fragment is the needle or is a word holding it
fragment_has(f, needle) ==
    \/ f = needle
    \/ f = "absolute" /\ needle = "abs"

\* needle in text
contains(text, needle) == \E i \in DOMAIN text : fragment_has(text[i], needle)

SYSTEM_PROMPT == <<"You are a Planner LLM. [...] Output only valid JSON.">>

CatalogMsg ==
    <<"We have 7 tools: SUM, PRODUCT, DELTA, QUOTIENT, MODULO, POWER, ABS. Ask for doc by name if needed.">>

NudgeMsg ==
    <<"If you need more tool docs, ask specifically. Otherwise, produce the final JSON plan.">>

DOC_SUM == <<"SUM: unreliable add. Takes [a,b]. Fails ~40%. Else returns a+b.">>

DOC_PRODUCT == <<"PRODUCT: unreliable multiply. Takes [a,b]. Fails ~40%. Else a*b.">>

DOC_DELTA == <<"DELTA: reliable difference b-a. Takes [a,b].">>

DOC_QUOTIENT == <<"QUOTIENT: reliable a/b. (error if b=0).">>

DOC_MODULO == <<"MODULO: reliable a%b. (error if b=0).">>

DOC_POWER == <<"POWER: reliable a**b.">>

DOC_ABS == <<"ABS: reliable absolute(a). Takes [a], ignoring b.">>

NoSuchTool == <<"No such tool.">>

\* The list parse_tool_request walks, in its order
ToolNames == <<"sum", "product", "delta", "quotient", "modulo", "power", "abs">>

NoToolName == ""

\* A plausible slip: the last name of the list that occurs wins.
parse_tool_request_last(text) ==
    IF \E i \in DOMAIN ToolNames : contains(text, ToolNames[i])
    THEN ToolNames[CHOOSE i \in DOMAIN ToolNames :
                      /\ contains(text, ToolNames[i])
                      /\ \A j \in DOMAIN ToolNames :
                            contains(text, ToolNames[j]) => j <= i]
    ELSE NoToolName

parse_tool_request(text) ==
    IF \E i \in DOMAIN ToolNames : contains(text, ToolNames[i])
    THEN ToolNames[CHOOSE i \in DOMAIN ToolNames :
                      /\ contains(text, ToolNames[i])
                      /\ \A j \in 1..(i - 1) : ~contains(text, ToolNames[j])]
    ELSE NoToolName

get_tool_doc(tool_name) ==
    CASE tool_name = "sum" -> DOC_SUM
      [] tool_name = "product" -> DOC_PRODUCT
      [] tool_name = "delta" -> DOC_DELTA
      [] tool_name = "quotient" -> DOC_QUOTIENT
      [] tool_name = "modulo" -> DOC_MODULO
      [] tool_name = "power" -> DOC_POWER
      [] tool_name = "abs" -> DOC_ABS
      [] OTHER -> NoSuchTool

message(role, content) == [role |-> role, content |-> content]

\* The role the chat API gives every reply
ReplyRole == "assistant"

\* A plausible slip: one marker is enough.
is_terminal_either(content) ==
    contains(content, StepsMarker) \/ contains(content, FinalMarker)

\* '"steps":' in content and '"final_step_index":' in content
is_terminal(content) ==
    contains(content, StepsMarker) /\ contains(content, FinalMarker)

asks_catalog(content) == contains(text_lower(content), WhichToolsExist)

asks_doc(content) == contains(text_lower(content), TellMeAbout)

\* What the specification describes: the name list, then a system nudge.
catalog_response_nudged == <<message("assistant", CatalogMsg), message("system", NudgeMsg)>>

\* What the catalog branch appends after the reply
catalog_response == <<message("assistant", CatalogMsg)>>

\* A plausible slip: the loop gives up after its second oracle call.
loop_gives_up(calls) == calls < 2

\* while True
loop_continues(calls) == TRUE

\* The replies of the oracle, as received.  They cover: both markers, with
\* surrounding whitespace, with a request beside them, with one marker in
\* another case; one marker; the two requests in either case, together,
\* naming no primitive, naming two, naming one inside a longer word.
OracleReplies ==
    {<<" ", StepsMarker, FinalMarker, " ">>,
     <<StepsMarker, FinalMarker>>,
     <<" ", StepsMarker, "Which tools exist", FinalMarker>>,
     <<FinalMarker, "Tell me about the tool named", "delta", StepsMarker>>,
     <<"\"Steps\":", FinalMarker>>,
     <<StepsMarker>>,
     <<"Which tools exist", "?">>,
     <<" ", WhichToolsExist>>,
     <<"Which tools exist", "Tell me about the tool named", "delta">>,
     <<"Tell me about the tool named", "PRODUCT">>,
     <<"Tell me about the tool named", "abs", "sum">>,
     <<"Tell me about the tool named", "absolute">>,
     <<TellMeAbout, "foo", " ">>,
     <<"?">>}

\* One pass of the loop up to the test of the markers
OracleCall(r) ==
    /\ d_pc = "call"
    /\ d_calls < MaxDiscTurns
    /\ reply' = r
    /\ d_calls' = d_calls + 1

\* After a reply without both markers the loop goes round again
LoopBack ==
    /\ d_pc' = (IF loop_continues(d_calls') THEN "call" ELSE "done")
    /\ UNCHANGED d_ret

\* The reply holds both markers: return content
DiscTerminal(r) ==
    LET content == str_strip(r) IN
    /\ OracleCall(r)
    /\ is_terminal(content)
    /\ d_ret' = content
    /\ d_pc' = "done"
    /\ UNCHANGED messages
    /\ UNCHANGED <<handler_vars, exec_vars, conc_vars>>

\* "which tools exist" in lower_content
DiscCatalog(r) ==
    LET content == str_strip(r) IN
    /\ OracleCall(r)
    /\ ~is_terminal(content)
    /\ asks_catalog(content)
    /\ messages' = Append(messages, message(ReplyRole, content)) \o catalog_response
    /\ LoopBack
    /\ UNCHANGED <<handler_vars, exec_vars, conc_vars>>

\* "tell me about the tool named" in lower_content
DiscDoc(r) ==
    LET content == str_strip(r)
        lower_content == text_lower(content)
    IN
    /\ OracleCall(r)
    /\ ~is_terminal(content)
    /\ ~asks_catalog(content)
    /\ asks_doc(content)
    /\ LET t == parse_tool_request(lower_content)
           snippet == get_tool_doc(t)
       IN  messages' = Append(Append(messages, message(ReplyRole, content)),
                              message("assistant", snippet))
    /\ LoopBack
    /\ UNCHANGED <<handler_vars, exec_vars, conc_vars>>

\* Neither request: the nudge
DiscOther(r) ==
    LET content == str_strip(r) IN
    /\ OracleCall(r)
    /\ ~is_terminal(content)
    /\ ~asks_catalog(content)
    /\ ~asks_doc(content)
    /\ messages' = Append(Append(messages, message(ReplyRole, content)),
                          message("assistant", NudgeMsg))
    /\ LoopBack
    /\ UNCHANGED <<handler_vars, exec_vars, conc_vars>>

\* The oracle call raises; nothing in the loop catches it
DiscRaises ==
    /\ d_pc = "call"
    /\ d_pc' = "raised"
    /\ UNCHANGED <<messages, d_ret, reply, d_calls>>
    /\ UNCHANGED <<handler_vars, exec_vars, conc_vars>>

\* conversation_with_planner(user_question) before the loop
InitDisc ==
    /\ \E user_question \in Questions :
         messages = <<message("system", SYSTEM_PROMPT), message("user", user_question)>>
    /\ d_pc = "call"
    /\ d_ret = <<>>
    /\ reply = <<>>
    /\ d_calls = 0
    /\ HandlerIdle
    /\ ExecIdle
    /\ ConcIdle

NextDisc ==
    \/ \E r \in OracleReplies : DiscTerminal(r)
    \/ \E r \in OracleReplies : DiscCatalog(r)
    \/ \E r \in OracleReplies : DiscDoc(r)
    \/ \E r \in OracleReplies : DiscOther(r)
    \/ DiscRaises

SpecDisc == InitDisc /\ [][NextDisc]_vars

NextExec == ExecStart \/ ExecStep \/ ExecReturn

SpecExec == InitExec /\ [][NextExec]_vars

-----------------------------------------------------------------------------
(* Vocabulary of the claims about execute_plan, stated on the plan itself *)

ExSteps == plan_text.obj.steps

StepTool(stp) == str_upper(stp.tool)

WellFormedStep(stp) == "tool" \in DOMAIN stp /\ "args" \in DOMAIN stp

\* The arity the catalog gives each primitive
ArityOf(tool) == IF tool = "ABS" THEN 1 ELSE 2

\* QUOTIENT or MODULO with a second argument of 0
DivZeroStep(stp) ==
    /\ WellFormedStep(stp)
    /\ StepTool(stp) \in {"QUOTIENT", "MODULO"}
    /\ Len(stp.args) >= 2
    /\ stp.args[2] = 0

\* A step of a valid plan: a catalog primitive with exactly its arity (ABS
\* may carry an ignored second argument) that divides by no zero
ValidStep(stp) ==
    /\ WellFormedStep(stp)
    /\ StepTool(stp) \in Catalog
    /\ \/ Len(stp.args) = ArityOf(StepTool(stp))
       \/ StepTool(stp) = "ABS" /\ Len(stp.args) = 2
    /\ ~DivZeroStep(stp)
    /\ ~(StepTool(stp) = "POWER" /\ stp.args[1] = 0 /\ stp.args[2] < 0)

HasPlanFields ==
    /\ plan_text.is_json
    /\ "steps" \in DOMAIN plan_text.obj
    /\ "final_step_index" \in DOMAIN plan_text.obj

ValidPlan ==
    /\ HasPlanFields
    /\ plan_text.obj.final_step_index \in 0..(Len(ExSteps) - 1)
    /\ \A i \in 1..Len(ExSteps) : ValidStep(ExSteps[i])

\* v = <<n, d>> is the exact value of the step, in integer arithmetic
ExactValue(stp, v) ==
    LET t == StepTool(stp)
        a == stp.args[1]
        b == stp.args[2]
    IN  CASE t = "SUM" -> v = <<a + b, 1>>
          [] t = "PRODUCT" -> v = <<a * b, 1>>
          [] t = "DELTA" -> v = <<b - a, 1>>
          [] t = "QUOTIENT" -> v[1] * b = a * v[2]
          [] t = "MODULO" ->
                /\ v[2] = 1
                /\ \E q \in -(Abs(a) + 1)..(Abs(a) + 1) : a = q * b + v[1]
                /\ IF b > 0 THEN 0 <= v[1] /\ v[1] < b ELSE b < v[1] /\ v[1] <= 0
          [] t = "POWER" ->
                IF b >= 0 THEN v = <<a ^ b, 1>> ELSE v[1] * (a ^ (-b)) = v[2]
          [] t = "ABS" -> v = <<Abs(a), 1>>

-----------------------------------------------------------------------------
(* Claims about execute_plan: specification SpecExec *)

\* C5: every SUM or PRODUCT result recorded in results is exactly a+b or
\* a*b, whatever the unreliable primitive returned, and a valid plan returns
\* the exact value of the step at final_step_index.
C5_ExactAnswer ==
    (ex_pc \in {"loop", "done"} /\ plan_text.is_json) =>
        /\ \A i \in 1..Len(results) :
             StepTool(ExSteps[i]) \in {"SUM", "PRODUCT"} =>
                 ExactValue(ExSteps[i], results[i])
        /\ (ex_pc = "done" /\ ValidPlan) =>
             /\ ex_out.status = "returned"
             /\ ExactValue(ExSteps[plan_text.obj.final_step_index + 1], ex_out.value)

\* C5 witness: a valid plan has returned the value of an unreliable step
\* whose candidate was a decoy and was replaced.
C5_Witness ==
    /\ ex_pc = "done"
    /\ ValidPlan
    /\ corrected
    /\ ex_out.status = "returned"
    /\ StepTool(ExSteps[plan_text.obj.final_step_index + 1]) \in {"SUM", "PRODUCT"}

\* C6: a plan whose steps are all valid and whose final_step_index is not
\* in 0..len(steps)-1 fails with MalformedPlan.
C6_InvalidFinalIndexRejected ==
    (/\ ex_pc = "done"
     /\ HasPlanFields
     /\ \A i \in 1..Len(ExSteps) : ValidStep(ExSteps[i])
     /\ plan_text.obj.final_step_index \notin 0..(Len(ExSteps) - 1))
    => ex_out = Raise(MalformedPlan)

\* A step of an arity-2 primitive with another number of arguments
ArityMismatchStep(stp) ==
    /\ WellFormedStep(stp)
    /\ StepTool(stp) \in Catalog \ {"ABS"}
    /\ Len(stp.args) # 2

\* C7: in a plan with a valid final_step_index, no step with the wrong
\* number of arguments is ever executed (no result is recorded for it), and
\* when the first step that is not valid is such a step, execute_plan fails
\* with ArityMismatch.
C7_ArityMismatchRejected ==
    (/\ ex_pc \in {"loop", "done"}
     /\ HasPlanFields
     /\ plan_text.obj.final_step_index \in 0..(Len(ExSteps) - 1)) =>
        /\ \A i \in 1..Len(results) : ~ArityMismatchStep(ExSteps[i])
        /\ \A k \in 1..Len(ExSteps) :
             (/\ ex_pc = "done"
              /\ ArityMismatchStep(ExSteps[k])
              /\ \A j \in 1..(k - 1) : ValidStep(ExSteps[j]))
             => ex_out = Raise(ArityMismatch)

\* C8 as stated: a QUOTIENT or MODULO step with second argument 0, at any
\* position of any plan, makes execute_plan fail with DivisionByZero.
C8_AnyDivZeroStepFails ==
    (/\ ex_pc = "done"
     /\ HasPlanFields
     /\ \E k \in 1..Len(ExSteps) : DivZeroStep(ExSteps[k]))
    => ex_out = Raise(DivisionByZero)

\* A step the loop executes without raising: a catalog primitive with at
\* least the arguments it reads, dividing by no zero
RunsStep(stp) ==
    /\ WellFormedStep(stp)
    /\ StepTool(stp) \in Catalog
    /\ Len(stp.args) >= ArityOf(StepTool(stp))
    /\ ~DivZeroStep(stp)
    /\ ~(StepTool(stp) = "POWER" /\ stp.args[1] = 0 /\ stp.args[2] < 0)

\* C8 as amended: when final_step_index passes the check made before the
\* loop and every earlier step runs, the step fails the plan with
\* DivisionByZero, no answer is returned and no later step is evaluated.
C8_FirstDivZeroStepFails ==
    (ex_pc = "done" /\ HasPlanFields) =>
        \A k \in 1..Len(ExSteps) :
            (/\ DivZeroStep(ExSteps[k])
             /\ plan_text.obj.final_step_index < Len(ExSteps)
             /\ \A j \in 1..(k - 1) : RunsStep(ExSteps[j]))
            => /\ ex_out = Raise(DivisionByZero)
               /\ Len(results) = k - 1

\* C8 witness: the division by zero is not the first step and not the
\* final step, and a step follows it.
C8_Witness ==
    /\ ex_pc = "done"
    /\ HasPlanFields
    /\ Len(ExSteps) >= 2
    /\ DivZeroStep(ExSteps[2])
    /\ RunsStep(ExSteps[1])
    /\ plan_text.obj.final_step_index = 0
    /\ ex_out = Raise(DivisionByZero)
    /\ Len(results) = 1

-----------------------------------------------------------------------------
(* Claims about the handler: specifications Spec and SpecSig *)

LoggedSigs == {log[i].sig : i \in DOMAIN log}

\* The fresh successful calls made so far for a signature
FreshSuccesses(s) ==
    {i \in DOMAIN log :
        log[i].sig = s /\ log[i].via = "fresh_llm" /\ log[i].status = "success"}

\* C1: from the empty cache, a signature with exactly one fresh successful
\* call has no cache entry and a signature with two has one.
C1_PromotionLaw ==
    \A s \in LoggedSigs :
        /\ Cardinality(FreshSuccesses(s)) = 1 => s \notin DOMAIN virtual_tools
        /\ Cardinality(FreshSuccesses(s)) = 2 => s \in DOMAIN virtual_tools

\* C1 witness: one signature has had two fresh successes and is cached,
\* another has had one and is not.
C1_Witness ==
    \E s, t \in LoggedSigs :
        /\ Cardinality(FreshSuccesses(s)) = 2
        /\ s \in DOMAIN virtual_tools
        /\ Cardinality(FreshSuccesses(t)) = 1
        /\ t \notin DOMAIN virtual_tools

\* The first n calls were made for one signature and all succeeded
FirstCallsSucceed(n) ==
    /\ Len(log) >= n
    /\ \A i \in 1..n : log[i].sig = log[1].sig /\ log[i].status = "success"

\* C2: when the first two calls, for one signature, succeed, both are
\* fresh_llm and the counter is 2; when the third succeeds too it is
\* virtual_tool and runs the plan text discovery returned in the second.
C2_ThreeCalls ==
    /\ FirstCallsSucceed(2) =>
         /\ log[1].via = "fresh_llm"
         /\ log[2].via = "fresh_llm"
         /\ dict_get(success_count, log[1].sig, 0) = 2
    /\ FirstCallsSucceed(3) =>
         /\ log[3].via = "virtual_tool"
         /\ log[3].plan = log[2].plan

\* C2 witness: three such calls, the two discoveries returning different
\* plan texts.
C2_Witness ==
    /\ FirstCallsSucceed(3)
    /\ log[1].plan # log[2].plan
    /\ log[3].plan = log[2].plan
    /\ log[3].via = "virtual_tool"

C4_EveryCallReturnsOutcome ==
    /\ result.status # "raised"
    /\ result.status = "returned" => result.value.status \in {"success", "fail"}

\* A step that finishes a call
FinishesCall == Len(log') = Len(log) + 1

\* C10: a cache entry, once set, keeps its plan text in every later step,
\* and a successful call for a signature whose counter has reached 2 leaves
\* the cache as it was.
C10_CacheEntryNeverOverwritten ==
    [][/\ \A s \in DOMAIN virtual_tools :
            s \in DOMAIN virtual_tools' /\ virtual_tools'[s] = virtual_tools[s]
       /\ (/\ FinishesCall
           /\ log'[Len(log')].status = "success"
           /\ dict_get(success_count, log'[Len(log')].sig, 0) >= 2)
          => virtual_tools' = virtual_tools]_vars

\* C10 witness: after a signature was promoted, a call for it succeeded and
\* its entry still holds the plan text of the promoting call.
C10_Witness ==
    \E i, j \in DOMAIN log :
        /\ i < j
        /\ log[i].sig = log[j].sig
        /\ log[i].via = "fresh_llm"
        /\ log[j].via = "virtual_tool"
        /\ log[j].status = "success"
        /\ Cardinality(FreshSuccesses(log[i].sig) \cap (1..i)) = 2
        /\ virtual_tools[log[i].sig].plan_text = log[i].plan

\* One elementary change of a text that leaves the request the same: a
\* whitespace character added or removed at either end, or the case of one
\* letter changed
flip_case(c) == IF c = "a" THEN "A" ELSE IF c = "A" THEN "a" ELSE c

SameRequest(x, y) ==
    \/ \E w \in Whitespace :
         \/ y = <<w>> \o x
         \/ y = x \o <<w>>
         \/ x = <<w>> \o y
         \/ x = y \o <<w>>
    \/ /\ Len(x) = Len(y)
       /\ \E i \in 1..Len(x) : y = [x EXCEPT ![i] = flip_case(x[i])]

\* C9: the signature of a request is a fixed point of the signature
\* function, every text that differs from the request by such a change
\* has the same signature, and so reads the same counter and the same
\* cache entry.
C9_SignatureNormalization ==
    /\ get_question_signature(sig) = sig
    /\ \A y \in Texts :
         SameRequest(wordy_question, y) =>
             /\ get_question_signature(y) = sig
             /\ dict_get(success_count, get_question_signature(y), 0)
                    = dict_get(success_count, sig, 0)
             /\ (get_question_signature(y) \in DOMAIN virtual_tools)
                    <=> (sig \in DOMAIN virtual_tools)

\* C9 witness: a request written with leading whitespace and an upper
\* case letter is served from the cache entry of its signature.
C9_Witness ==
    /\ pc = "idle"
    /\ Len(log) = 3
    /\ log[3].via = "virtual_tool"
    /\ wordy_question = <<" ", "A">>
    /\ sig = <<"a">>
    /\ dict_get(success_count, sig, 0) = 2
    /\ sig \in DOMAIN virtual_tools

-----------------------------------------------------------------------------
(* Claims about the counter and the cache over a run: specification Spec *)

\* A fresh call for s that failed
FreshFailures(s) ==
    {i \in DOMAIN log :
        log[i].sig = s /\ log[i].via = "fresh_llm" /\ log[i].status = "fail"}

\* Two fresh successes for s with no fresh failure for s between them
ConsecutiveFreshSuccesses(s) ==
    \E i, j \in FreshSuccesses(s) :
        /\ i < j
        /\ \A k \in FreshFailures(s) : ~(i < k /\ k < j)

\* A fresh success, a fresh failure and a fresh success, in this order
SuccessFailureSuccess(s) ==
    \E i, j \in FreshSuccesses(s) : \E k \in FreshFailures(s) : i < k /\ k < j

\* C11 as stated: a cached signature has had two fresh successes with no
\* fresh failure between them; success, failure, success creates no entry.
C11_ConsecutiveSuccessesOnly ==
    \A s \in DOMAIN virtual_tools : ConsecutiveFreshSuccesses(s)

\* C11 as amended: a cache entry is created only by the step that finishes
\* the second fresh success for its signature, failures in between or not,
\* and it holds that call's plan text; after success, failure, success the
\* signature is cached.
C11_SecondSuccessPromotes ==
    [][/\ \A s \in DOMAIN virtual_tools' :
            s \notin DOMAIN virtual_tools =>
                /\ FinishesCall
                /\ log'[Len(log')] =
                       log_entry(s, FALSE, TRUE, virtual_tools'[s].plan_text,
                                 "success", "fresh_llm")
                /\ Cardinality(FreshSuccesses(s)') = 2
       /\ \A s \in LoggedSigs' :
            SuccessFailureSuccess(s)' => s \in DOMAIN virtual_tools']_vars

\* C11 witness: a signature whose two fresh successes are separated by a
\* fresh failure is cached with the plan text of the second success.
C11_Witness ==
    \E s \in DOMAIN virtual_tools :
        /\ ~ConsecutiveFreshSuccesses(s)
        /\ Cardinality(FreshSuccesses(s)) = 2
        /\ \E j \in FreshSuccesses(s) :
             /\ \A i \in FreshSuccesses(s) : i <= j
             /\ virtual_tools[s].plan_text = log[j].plan

\* The history entry of the call a step finishes
LastCall == log[Len(log)]

\* C16: a step that finishes a fresh call whose plan execution failed
\* leaves virtual_tools and success_count as they were, and returns a dict
\* with status fail, via fresh_llm and the plan text the oracle returned.
C16_FreshFailureFrame ==
    [][(FinishesCall /\ LastCall'.via = "fresh_llm" /\ LastCall'.status = "fail") =>
          /\ virtual_tools' = virtual_tools
          /\ success_count' = success_count
          /\ result'.status = "returned"
          /\ result'.value.status = "fail"
          /\ result'.value.via = "fresh_llm"
          /\ result'.value.plan = LastCall'.plan
          /\ result'.value.plan \in OraclePlans
          /\ result'.value.question = wordy_question]_vars

\* C16 witness: a fresh call failed at a division by zero while its own
\* signature had one success counted and another signature was cached;
\* the counter is still 1 and the cache still holds that one entry.
C16_Witness ==
    /\ pc = "idle"
    /\ log # <<>>
    /\ LastCall.via = "fresh_llm"
    /\ LastCall.status = "fail"
    /\ LastCall.sig = sig
    /\ result.value.plan = PlanDivZero
    /\ result.value.error = DivisionByZero
    /\ dict_get(success_count, sig, 0) = 1
    /\ DOMAIN virtual_tools # {}
    /\ sig \notin DOMAIN virtual_tools

\* Every signature the state mentions
KnownSigs == LoggedSigs \cup DOMAIN success_count \cup DOMAIN virtual_tools

\* C19: every counter is 0, 1 or 2, a signature is cached exactly when its
\* counter is 2, and once a call for a signature was served from the cache
\* every later call for it is.
C19_CounterCacheInvariant ==
    /\ \A s \in KnownSigs :
         /\ dict_get(success_count, s, 0) \in {0, 1, 2}
         /\ (s \in DOMAIN virtual_tools) <=> (dict_get(success_count, s, 0) = 2)
    /\ \A i, j \in DOMAIN log :
         (i < j /\ log[i].sig = log[j].sig /\ log[i].via = "virtual_tool")
         => /\ log[j].via = "virtual_tool"
            /\ log[j].plan = log[i].plan

\* C19 witness: a signature whose counter is 2 was served from the cache
\* twice in a row, the counter staying at 2.
C19_Witness ==
    /\ \E i, j \in DOMAIN log :
         /\ i < j
         /\ log[i].sig = log[j].sig
         /\ log[i].via = "virtual_tool"
         /\ log[j].via = "virtual_tool"
         /\ dict_get(success_count, log[i].sig, 0) = 2
    /\ pc = "idle"

\* The distinct outcomes of a step, whatever the random source does
StepResults(stp) == {p[1] : p \in StepOutcomes[stp]}

\* C20: no call served from the cache fails; every step and every plan
\* text has one outcome whatever the random source draws; a cached text
\* has a returned value as that outcome, the text is the one the second
\* fresh success ran, and a cache hit returns that value.
C20_CacheHitNeverFails ==
    /\ \A i \in DOMAIN log : log[i].via = "virtual_tool" => log[i].status = "success"
    /\ \A stp \in StepInputs : Cardinality(StepResults(stp)) = 1
    /\ \A text \in OraclePlans : Cardinality(ExecOutcomes[text]) = 1
    /\ \A s \in DOMAIN virtual_tools :
         /\ \A o \in ExecOutcomes[virtual_tools[s].plan_text] : o.status = "returned"
         /\ \E j \in FreshSuccesses(s) : log[j].plan = virtual_tools[s].plan_text
    /\ (pc = "idle" /\ log # <<>> /\ LastCall.via = "virtual_tool") =>
         /\ result.status = "returned"
         /\ result.value.status = "success"
         /\ result.value.plan = virtual_tools[sig].plan_text
         /\ Return(result.value.answer) \in ExecOutcomes[virtual_tools[sig].plan_text]

\* C20 witness: a cache hit ran a plan with an unreliable PRODUCT step and
\* returned 28, the answer of the promoting execution.
C20_Witness ==
    /\ pc = "idle"
    /\ log # <<>>
    /\ LastCall.via = "virtual_tool"
    /\ LastCall.plan = PlanA
    /\ result.value.status = "success"
    /\ result.value.answer = float(28)
    /\ \E j \in FreshSuccesses(sig) : log[j].plan = PlanA

-----------------------------------------------------------------------------
(* Claim about a cached plan that fails: specification SpecPreloaded *)

-----------------------------------------------------------------------------
(* Claims about conversation_with_planner: specification SpecDisc *)

\* A step in which the oracle replied
OracleAnswered == d_calls' = d_calls + 1

\* The text holds both markers, in the case the loop looks for
HoldsBothMarkers(text) == contains(text, StepsMarker) /\ contains(text, FinalMarker)

\* C12 as stated: a reply ends the conversation exactly when it holds both
\* markers, whatever else it asks for; then no message is appended, no
\* further step follows, and the text returned is the reply as received.
C12_TerminalReturnsRawReply ==
    [][/\ d_pc # "done"
       /\ OracleAnswered =>
            /\ (d_pc' = "done") <=> HoldsBothMarkers(reply')
            /\ d_pc' = "done" => (messages' = messages /\ d_ret' = reply')]_vars

\* C12 as amended: the same, the text returned being the reply with the
\* whitespace at its two ends removed.
C12_TerminalReturnsStrippedReply ==
    [][/\ d_pc # "done"
       /\ OracleAnswered =>
            /\ (d_pc' = "done") <=> HoldsBothMarkers(reply')
            /\ d_pc' = "done" =>
                 /\ messages' = messages
                 /\ d_ret' = str_strip(reply')
                 /\ \E lead, trail \in 0..Len(reply') :
                      /\ lead + Len(d_ret') + trail = Len(reply')
                      /\ d_ret' = SubSeq(reply', lead + 1, Len(reply') - trail)
                      /\ \A k \in 1..Len(reply') :
                           (k <= lead \/ k > Len(reply') - trail)
                           => reply'[k] \in Whitespace]_vars

\* C12 witness: after one round, a reply that starts with whitespace and
\* asks for the catalog between the two markers ended the conversation
\* and was returned without the whitespace.
C12_Witness ==
    /\ d_pc = "done"
    /\ d_calls = 2
    /\ Len(messages) = 4
    /\ reply = <<" ", StepsMarker, "Which tools exist", FinalMarker>>
    /\ d_ret = <<StepsMarker, "Which tools exist", FinalMarker>>

Docs == {DOC_SUM, DOC_PRODUCT, DOC_DELTA, DOC_QUOTIENT, DOC_MODULO, DOC_POWER, DOC_ABS}

\* The positions of the messages a step appends
AppendedAt == (Len(messages) + 1)..Len(messages')

\* A step in which the oracle asked for the catalog in a reply that does
\* not hold both markers
CatalogRequested ==
    /\ OracleAnswered
    /\ ~HoldsBothMarkers(reply')
    /\ contains(text_lower(reply'), WhichToolsExist)

\* C13 as stated: such a step appends an assistant message with the names
\* of the primitives, then a nudge (a system message, or the text of the
\* nudge), appends no documentation snippet, and the loop calls the oracle
\* again.
C13_CatalogThenSystemNudge ==
    [][CatalogRequested =>
          /\ \E k \in AppendedAt :
               /\ messages'[k] = message("assistant", CatalogMsg)
               /\ \E j \in AppendedAt :
                    /\ j > k
                    /\ messages'[j].role = "system" \/ messages'[j].content = NudgeMsg
          /\ \A k \in AppendedAt : messages'[k].content \notin Docs
          /\ d_pc' = "call"]_vars

\* C13 as amended: such a step appends the reply and then one assistant
\* message with the names of the primitives and nothing else, no nudge
\* and no documentation snippet, and the loop calls the oracle again.
C13_CatalogNamesOnly ==
    [][CatalogRequested =>
          /\ messages' = messages \o <<message("assistant", str_strip(reply')),
                                       message("assistant", CatalogMsg)>>
          /\ CatalogMsg \notin Docs \cup {NudgeMsg}
          /\ \A k \in AppendedAt : messages'[k].role # "system"
          /\ d_pc' = "call"]_vars

\* C13 witness: the reply asked for the catalog and for the documentation
\* of DELTA at once; the name list is the last message and the loop is
\* about to call the oracle again.
C13_Witness ==
    /\ d_pc = "call"
    /\ Len(messages) = 4
    /\ messages[3].content =
           <<"Which tools exist", "Tell me about the tool named", "delta">>
    /\ messages[4] = message("assistant", CatalogMsg)

\* The documentation snippets, in the order of ToolNames
DocList == <<DOC_SUM, DOC_PRODUCT, DOC_DELTA, DOC_QUOTIENT, DOC_MODULO, DOC_POWER, DOC_ABS>>

\* A step in which the oracle asked for the documentation of a primitive,
\* in a reply that does not hold both markers and does not ask for the
\* catalog
DocRequested ==
    /\ OracleAnswered
    /\ ~HoldsBothMarkers(reply')
    /\ ~contains(text_lower(reply'), WhichToolsExist)
    /\ contains(text_lower(reply'), TellMeAbout)

C15_NoExitWithoutTerminalReply ==
    [][/\ (OracleAnswered /\ ~HoldsBothMarkers(reply')) =>
            /\ d_pc' = "call"
            /\ d_ret' = d_ret
            /\ Len(messages') = Len(messages) + 2
       /\ (OracleAnswered /\ HoldsBothMarkers(reply')) => d_pc' = "done"
       /\ d_pc' = "done" => (OracleAnswered /\ HoldsBothMarkers(reply'))
       /\ d_pc' = "call" => Len(messages') = 2 + 2 * d_calls']_vars

\* C15 witness: every reply so far lacked a marker; the loop has made as
\* many calls as the model follows and is about to call again.
C15_Witness ==
    /\ d_pc = "call"
    /\ d_calls = MaxDiscTurns
    /\ Len(messages) = 2 + 2 * MaxDiscTurns
    /\ ~HoldsBothMarkers(reply)
    /\ d_ret = <<>>

-----------------------------------------------------------------------------
(* Claim about two threads: specification SpecConc *)

AllIdle == \A t \in Threads : th[t].pc = "idle"

\* The threads whose execution succeeded and that have not returned yet
Succeeding(s) == {t \in Threads : th[t].sig = s /\ th[t].pc \in {"read", "write", "promote"}}

\* Two fresh successes have returned, the counter is 1 and nothing is cached
LostIncrement(s) ==
    /\ AllIdle
    /\ Cardinality(FreshSuccesses(s)) = 2
    /\ dict_get(success_count, s, 0) = 1
    /\ s \notin DOMAIN virtual_tools

CounterExceeds(s) == dict_get(success_count, s, 0) > 2

BadState ==
    \/ overwritten
    \/ \E s \in KnownSigs : LostIncrement(s) \/ CounterExceeds(s)

\* C18: a lost increment, an overwritten cache entry and a counter above 2
\* happen, and happen only in runs where a call started while another was
\* running; increments are lost, never invented: a counter never exceeds
\* the number of successful fresh executions for its signature.
C18_RacesNeedOverlap ==
    /\ BadState => overlapped
    /\ \A s \in KnownSigs :
         dict_get(success_count, s, 0)
            <= Cardinality(FreshSuccesses(s)) + Cardinality(Succeeding(s))

\* C18 witness: two overlapping calls for one signature both succeeded and
\* returned; the counter is 1 and no entry was stored.
C18_Witness ==
    /\ overlapped
    /\ \E s \in KnownSigs : LostIncrement(s)

\* The second bad state: an entry was replaced by the text of another call
C18_OverwriteReached ==
    /\ overwritten
    /\ AllIdle
    /\ \E i, j \in DOMAIN log :
         /\ i < j
         /\ log[i].sig = log[j].sig
         /\ log[i].plan # log[j].plan
         /\ log[i].sig \in DOMAIN virtual_tools
         /\ virtual_tools[log[i].sig].plan_text = log[j].plan
         /\ Cardinality(FreshSuccesses(log[i].sig)) = 3
         /\ success_count[log[i].sig] = 2

\* The third: a counter above 2
C18_ExceedReached ==
    /\ AllIdle
    /\ \E s \in KnownSigs : CounterExceeds(s) /\ s \in DOMAIN virtual_tools

====
